---------------------------- MODULE Spec2Model ----------------------------
(***************************************************************************)
(* Model of the telemetry correlation pipeline of the two FastAPI services *)
(* (services/base/main.py, services/service_b/main.py) and of the shared   *)
(* initialiser services/base/telemetry.py.                                 *)
(*                                                                         *)
(* One request slot r is one invocation of telemetry_middleware.  The      *)
(* middleware runs as a task of the event loop (pc[r]); the route handler  *)
(* it awaits through call_next is a plain "def" and therefore runs on a    *)
(* worker thread with a copy of the task's context (hpc[r], hctx[r]).      *)
(***************************************************************************)
EXTENDS Integers, Sequences, FiniteSets, TLC

\* ------------------------------------------------------------------ bounds
MaxReqs == 2
MaxInitCalls == 3

Reqs == 1..MaxReqs

\* ------------------------------------------------------- program constants
\* randint(50, 200) / 1000.0 and the 0.15 s threshold of work(), in ms
MinWorkMs == 50
MaxWorkMs == 200
SlowThresholdMs == 150
\* format(ctx.trace_id, "032x"), format(ctx.span_id, "016x")
TraceIdWidth == 32
SpanIdWidth == 16

\* the sampled inputs of the random draws: both ends and both sides of the threshold
WorkTimes == {MinWorkMs, SlowThresholdMs, SlowThresholdMs + 1, MaxWorkMs}

Services == {"base", "service_b"}
RoutesOf(svc) == IF svc = "base" THEN {"/", "/compute", "/external", "/missing"}
                 ELSE {"/work", "/missing"}

\* service_instance_id = os.getenv("HOSTNAME", "unknown")
service_instance_id == "unknown"

LoggerName(svc) == IF svc = "base" THEN "base_logger" ELSE "service_b_logger"

\* the attribute key the histogram observation uses for the instance id
InstanceKey(svc) == IF svc = "base" THEN "http.service.instance.id"
                    ELSE "service.instance.id"

\* ------------------------------------------------------------ identifiers
\* The SDK's id generator draws 128-bit trace ids and 64-bit span ids at
\* random; the model takes them collision-free: the k-th span of slot r
\* (1: request span, 2: handler span, 3: client span) draws its own span id
\* and, when it has no parent, its own trace id.
NewTraceId(r, k) == 3 * (r - 1) + k
NewSpanId(r, k) == 3 * (r - 1) + k

\* identifiers a client may send in a traceparent header
RemoteTraceIds == {3 * MaxReqs + 1, 3 * MaxReqs + 2}
RemoteSpanId == 3 * MaxReqs + 1

\* ------------------------------------------------------------- hex format
HexChars == <<"0", "1", "2", "3", "4", "5", "6", "7",
              "8", "9", "a", "b", "c", "d", "e", "f">>

RECURSIVE FormatHex(_, _)
\* format(n, "0<w>x"): lower-case hex, zero-padded to w digits
FormatHex(n, w) ==
    IF w = 0 THEN ""
    ELSE FormatHex(n \div 16, w - 1) \o HexChars[(n % 16) + 1]

HexValueOf(c) == CHOOSE i \in 0..15 : HexChars[i + 1] = c

IsHex(s) == \A i \in 1..Len(s) : \E j \in 1..16 : HexChars[j] = SubSeq(s, i, i)

RECURSIVE ParseHex(_)
\* int(s, 16)
ParseHex(s) ==
    IF Len(s) = 0 THEN 0
    ELSE ParseHex(SubSeq(s, 1, Len(s) - 1)) * 16 + HexValueOf(SubSeq(s, Len(s), Len(s)))

\* the identifiers of the model and their formatted forms
AllIds == 0..(3 * MaxReqs + 2)
TraceHex == [n \in AllIds |-> FormatHex(n, TraceIdWidth)]
SpanHex == [n \in AllIds |-> FormatHex(n, SpanIdWidth)]

\* ------------------------------------------------------------- propagator
\* no traceparent header
Absent == ""

\* "<version>-<trace_id hex32>-<span_id hex16>-<flags>"
Traceparent(tid, sid) == "00-" \o TraceHex[tid] \o "-" \o SpanHex[sid] \o "-01"

\* headers that do not parse: a short trace id, and the all-zero trace id
MalformedHeaders ==
    { "00-" \o FormatHex(3 * MaxReqs + 1, TraceIdWidth - 1) \o "-"
        \o SpanHex[RemoteSpanId] \o "-01",
      Traceparent(0, RemoteSpanId) }

ValidHeaders == { Traceparent(t, RemoteSpanId) : t \in RemoteTraceIds }

InboundHeaders == {Absent} \cup ValidHeaders \cup MalformedHeaders

NoContext == [trace_id |-> 0, span_id |-> 0, is_remote |-> FALSE]

\* the fields of a traceparent value, by position
VersionOf(h) == SubSeq(h, 1, 2)
TraceFieldOf(h) == SubSeq(h, 4, 3 + TraceIdWidth)
SpanFieldOf(h) == SubSeq(h, 5 + TraceIdWidth, 4 + TraceIdWidth + SpanIdWidth)
FlagsOf(h) == SubSeq(h, 6 + TraceIdWidth + SpanIdWidth, 7 + TraceIdWidth + SpanIdWidth)

\* the header matches the traceparent pattern and names no invalid id
WellFormed(h) ==
    /\ Len(h) = 7 + TraceIdWidth + SpanIdWidth
    /\ SubSeq(h, 3, 3) = "-"
    /\ SubSeq(h, 4 + TraceIdWidth, 4 + TraceIdWidth) = "-"
    /\ SubSeq(h, 5 + TraceIdWidth + SpanIdWidth, 5 + TraceIdWidth + SpanIdWidth) = "-"
    /\ IsHex(VersionOf(h)) /\ VersionOf(h) # "ff"
    /\ IsHex(TraceFieldOf(h)) /\ IsHex(SpanFieldOf(h)) /\ IsHex(FlagsOf(h))
    /\ ParseHex(TraceFieldOf(h)) # 0
    /\ ParseHex(SpanFieldOf(h)) # 0

\* extract(request.headers): the remote span context, or the empty context
\* when the header is absent or does not parse; it never raises
extract(h) ==
    IF WellFormed(h)
    THEN [trace_id |-> ParseHex(TraceFieldOf(h)), span_id |-> ParseHex(SpanFieldOf(h)),
          is_remote |-> TRUE]
    ELSE NoContext

\* an outbound call that is not instrumented: no header is written
inject_nothing(sc) == Absent

\* inject(headers) of the instrumented requests call: the active span context
inject(sc) == Traceparent(sc.trace_id, sc.span_id)

\* ------------------------------------------------------------------ spans
NoAttributes == <<>>

\* the invalid span get_current_span() returns when none is active
NoSpan == [name |-> "", trace_id |-> 0, span_id |-> 0, parent |-> NoContext,
           attributes |-> NoAttributes, status |-> "UNSET", ended |-> FALSE]

IsValid(sc) == sc.trace_id # 0 /\ sc.span_id # 0

\* tracer.start_span: a new span id; the parent's trace id when the parent
\* context is valid, otherwise a newly generated trace id and no parent
start_span(name, parent, r, k) ==
    [name |-> name,
     trace_id |-> IF IsValid(parent) THEN parent.trace_id ELSE NewTraceId(r, k),
     span_id |-> NewSpanId(r, k),
     parent |-> IF IsValid(parent) THEN parent ELSE NoContext,
     attributes |-> NoAttributes,
     status |-> "UNSET",
     ended |-> FALSE]

get_span_context(s) == [trace_id |-> s.trace_id, span_id |-> s.span_id, is_remote |-> FALSE]

\* span.set_attribute(key, value): last write wins
set_attribute(s, key, value) == [s EXCEPT !.attributes = (key :> value) @@ @]

\* span.set_status(Status(StatusCode.ERROR, ...))
set_status_error(s) == [s EXCEPT !.status = "ERROR"]

\* span.end()
end_span(s) == [s EXCEPT !.ended = TRUE]

\* leaving the "with tracer.start_as_current_span(...)" block that was left
\* without its finally clause: the span of a block left by an exception stays open
with_exit_unprotected(s, raised) == IF raised THEN s ELSE end_span(s)

\* leaving a "with tracer.start_as_current_span(...)" block: the span is
\* ended on every way out, and marked ERROR when an exception leaves the block
with_exit(s, raised) == end_span(IF raised THEN set_status_error(s) ELSE s)

\* ---------------------------------------------------------------- context
\* The current-span slot of one execution context, with the values the
\* attach tokens restore: a stack of span contexts, innermost last.
get_current_span_context(c) == IF c = <<>> THEN NoContext ELSE c[Len(c)]

attach(c, sc) == Append(c, sc)

\* a detach that drops the slot instead of restoring the token's value
detach_clearing(c) == <<>>

\* context.detach(token): the value current before the matching attach
detach(c) == SubSeq(c, 1, Len(c) - 1)

\* a worker thread started without the caller's context
empty_context(c) == <<>>

\* the handler is a plain "def": call_next runs it on a worker thread with
\* a copy of the context of the task that awaits it
copy_context(c) == c

\* ------------------------------------------------------------ log records
None == "None"

\* `span and isinstance(span.get_span_context(), SpanContext)`:
\* get_current_span() always returns a span object (the invalid span when
\* none is active) and its context is always a SpanContext
has_span_context(sc) == sc \in [trace_id : Nat, span_id : Nat, is_remote : BOOLEAN]

\* record_factory(*args, **kwargs) run in execution context c on behalf of
\* request r (0: no request).  The message text is kept as a tag; req and
\* active are history fields.
record_factory(c, r, logger, level, msg) ==
    LET sc == get_current_span_context(c) IN
    [logger |-> logger, level |-> level, msg |-> msg,
     trace_id |-> IF has_span_context(sc) THEN TraceHex[sc.trace_id] ELSE None,
     span_id |-> IF has_span_context(sc) THEN SpanHex[sc.span_id] ELSE None,
     req |-> r,
     active |-> sc]

NoLog == [logger |-> "", level |-> "", msg |-> "",
          trace_id |-> None, span_id |-> None, req |-> 0, active |-> NoContext]

\* ------------------------------------------------------------------ state
VARIABLES
    pc,            \* middleware task: "idle", "await" (in call_next), "done"
    hpc,           \* handler thread: "none", "sleeping", "waiting", "returned", "raised"
    request,       \* the inbound request of the slot (caller: the slot whose
                   \* outbound call it is, a history field)
    ctx,           \* context of the middleware task
    hctx,          \* context of the handler thread
    rspan,         \* the request span of telemetry_middleware
    nspan,         \* the span the handler starts
    cspan,         \* the client span of the instrumented requests.get
    local,         \* work(): the work_time drawn, in ms
    response,      \* status code of the response call_next returned (0: none)
    outcome,       \* what the caller of telemetry_middleware saw
    observations,  \* request_duration.record calls made by the invocation
    lastLog,       \* the log record created last for each request (0: for none)
    telemetry      \* what init_telemetry has registered in the process

vars == <<pc, hpc, request, ctx, hctx, rspan, nspan, cspan, local, response,
          outcome, observations, lastLog, telemetry>>

pipelineVars == <<pc, hpc, request, ctx, hctx, rspan, nspan, cspan, local,
                  response, outcome, observations, lastLog>>

NoRequest == [service |-> "", method |-> "", route |-> "", traceparent |-> Absent,
              caller |-> 0]

NoOutcome == [kind |-> "none", status |-> 0]

\* a process in which init_telemetry has not run
NoTelemetry == [calls |-> <<>>, tracer_provider |-> 0, meter_provider |-> 0,
                span_processors |-> {}, metric_readers |-> {}, log_processors |-> {},
                root_handlers |-> <<>>, factory_chain |-> 0,
                requests_instrumented |-> FALSE, logging_instrumented |-> FALSE,
                handles |-> <<>>, delivered |-> <<>>]

Init ==
    /\ pc = [r \in Reqs |-> "idle"]
    /\ hpc = [r \in Reqs |-> "none"]
    /\ request = [r \in Reqs |-> NoRequest]
    /\ ctx = [r \in Reqs |-> <<>>]
    /\ hctx = [r \in Reqs |-> <<>>]
    /\ rspan = [r \in Reqs |-> NoSpan]
    /\ nspan = [r \in Reqs |-> NoSpan]
    /\ cspan = [r \in Reqs |-> NoSpan]
    /\ local = [r \in Reqs |-> 0]
    /\ response = [r \in Reqs |-> 0]
    /\ outcome = [r \in Reqs |-> NoOutcome]
    /\ observations = [r \in Reqs |-> <<>>]
    /\ lastLog = [r \in 0..MaxReqs |-> NoLog]
    /\ telemetry = NoTelemetry

\* slots are taken in order
IsNextFree(r) == pc[r] = "idle" /\ \A q \in Reqs : q < r => pc[q] # "idle"

\* the route table of the two applications
HandlerOf(rq) ==
    IF rq.service = "base" /\ rq.route = "/" THEN "root"
    ELSE IF rq.service = "base" /\ rq.route = "/compute" THEN "compute"
    ELSE IF rq.service = "base" /\ rq.route = "/external" THEN "external_call"
    ELSE IF rq.service = "service_b" /\ rq.route = "/work" THEN "work"
    ELSE "not_found"

\* ------------------------------------------------------------- middleware
\* start_as_current_span(name) without context=ctx: the inbound context is dropped
request_parent_ignored(h) == NoContext

\* ctx = extract(request.headers); start_as_current_span(..., context=ctx)
request_parent(h) == extract(h)

\* telemetry_middleware up to "await call_next(request)": extract, start the
\* request span as current, set its three attributes
request_span(r, rq) ==
    set_attribute(
      set_attribute(
        set_attribute(
          start_span(rq.method \o " " \o rq.route, request_parent(rq.traceparent), r, 1),
          "http.method", rq.method),
        "http.route", rq.route),
      "service.instance.id", service_instance_id)

\* the attributes of the histogram observation
observation(rq, status) ==
    ("http.route" :> rq.route) @@ ("http.status_code" :> status)
    @@ ("http.method" :> rq.method) @@ (InstanceKey(rq.service) :> service_instance_id)

\* a request arrives from a client
Receive(r, svc, route, hdr) ==
    /\ IsNextFree(r)
    /\ LET rq == [service |-> svc, method |-> "GET", route |-> route,
                  traceparent |-> hdr, caller |-> 0] IN
       /\ request' = [request EXCEPT ![r] = rq]
       /\ rspan' = [rspan EXCEPT ![r] = request_span(r, rq)]
       /\ ctx' = [ctx EXCEPT ![r] = attach(@, get_span_context(request_span(r, rq)))]
    /\ pc' = [pc EXCEPT ![r] = "await"]
    /\ UNCHANGED <<hpc, hctx, nspan, cspan, local, response, outcome,
                   observations, lastLog, telemetry>>

\* call_next returned a response: record the metric, annotate the span, log,
\* return the response; the with block ends the span and detaches it
Complete(r) ==
    /\ pc[r] = "await" /\ hpc[r] = "returned"
    /\ observations' = [observations EXCEPT
                          ![r] = Append(@, observation(request[r], response[r]))]
    /\ lastLog' = [lastLog EXCEPT ![r] =
                     record_factory(ctx[r], r, LoggerName(request[r].service),
                                    "INFO", "request")]
    /\ rspan' = [rspan EXCEPT ![r] =
                   with_exit(set_attribute(
                               set_attribute(@, "http.status_code", response[r]),
                               "http.duration", "duration"), FALSE)]
    /\ ctx' = [ctx EXCEPT ![r] = detach(@)]
    /\ outcome' = [outcome EXCEPT ![r] = [kind |-> "response", status |-> response[r]]]
    /\ pc' = [pc EXCEPT ![r] = "done"]
    /\ UNCHANGED <<hpc, request, hctx, nspan, cspan, local, response, telemetry>>

\* call_next raised: the exception leaves the with block, which ends the
\* span marked ERROR, and reaches the caller; nothing after line 100 runs
Propagate(r) ==
    /\ pc[r] = "await" /\ hpc[r] = "raised"
    /\ rspan' = [rspan EXCEPT ![r] = with_exit(@, TRUE)]
    /\ ctx' = [ctx EXCEPT ![r] = detach(@)]
    /\ outcome' = [outcome EXCEPT ![r] = [kind |-> "raised", status |-> 0]]
    /\ pc' = [pc EXCEPT ![r] = "done"]
    /\ UNCHANGED <<hpc, request, hctx, nspan, cspan, local, response,
                   observations, lastLog, telemetry>>

\* the task is cancelled while it awaits call_next: CancelledError leaves the
\* with block.  Whether the SDK marks the span ERROR for an exception that is
\* not an Exception depends on its version.
Cancel(r) ==
    /\ pc[r] = "await" /\ hpc[r] \notin {"returned", "raised"}
    /\ \E marked \in BOOLEAN :
         rspan' = [rspan EXCEPT ![r] = with_exit(@, marked)]
    /\ ctx' = [ctx EXCEPT ![r] = detach(@)]
    /\ outcome' = [outcome EXCEPT ![r] = [kind |-> "cancelled", status |-> 0]]
    /\ pc' = [pc EXCEPT ![r] = "done"]
    /\ UNCHANGED <<hpc, request, hctx, nspan, cspan, local, response,
                   observations, lastLog, telemetry>>

\* --------------------------------------------------------------- handlers
\* the span a handler starts with tracer.start_as_current_span(name): a
\* child of the span current in the worker thread's copy of the context
handler_span(r, name) ==
    start_span(name, get_current_span_context(copy_context(ctx[r])), r, 2)

\* the worker thread's context inside the handler's with block
handler_context(r, name) ==
    attach(copy_context(ctx[r]), get_span_context(handler_span(r, name)))

\* no route matches: the router answers 404 and no handler runs
NotFound(r) ==
    /\ pc[r] = "await" /\ hpc[r] = "none"
    /\ HandlerOf(request[r]) = "not_found"
    /\ response' = [response EXCEPT ![r] = 404]
    /\ hpc' = [hpc EXCEPT ![r] = "returned"]
    /\ UNCHANGED <<pc, request, ctx, hctx, rspan, nspan, cspan, local, outcome,
                   observations, lastLog, telemetry>>

\* root(): span home_handler, one log line, 200
Root(r) ==
    /\ pc[r] = "await" /\ hpc[r] = "none"
    /\ HandlerOf(request[r]) = "root"
    /\ lastLog' = [lastLog EXCEPT ![r] = record_factory(handler_context(r, "home_handler"),
                                                        r, "base_logger", "INFO", "root")]
    /\ nspan' = [nspan EXCEPT ![r] = with_exit(handler_span(r, "home_handler"), FALSE)]
    /\ hctx' = [hctx EXCEPT ![r] = detach(handler_context(r, "home_handler"))]
    /\ response' = [response EXCEPT ![r] = 200]
    /\ hpc' = [hpc EXCEPT ![r] = "returned"]
    /\ UNCHANGED <<pc, request, ctx, rspan, cspan, local, outcome, observations,
                   telemetry>>

\* compute() up to time.sleep(t): span compute_operation; the thread then
\* sleeps (the length of the sleep is not modelled)
ComputeStart(r) ==
    /\ pc[r] = "await" /\ hpc[r] = "none"
    /\ HandlerOf(request[r]) = "compute"
    /\ nspan' = [nspan EXCEPT ![r] = handler_span(r, "compute_operation")]
    /\ hctx' = [hctx EXCEPT ![r] = handler_context(r, "compute_operation")]
    /\ hpc' = [hpc EXCEPT ![r] = "sleeping"]
    /\ UNCHANGED <<pc, request, ctx, rspan, cspan, local, response, outcome,
                   observations, lastLog, telemetry>>

\* compute() after the sleep: one log line, 200
ComputeFinish(r) ==
    /\ hpc[r] = "sleeping"
    /\ HandlerOf(request[r]) = "compute"
    /\ lastLog' = [lastLog EXCEPT ![r] = record_factory(hctx[r], r, "base_logger", "INFO",
                                                        "compute")]
    /\ nspan' = [nspan EXCEPT ![r] = with_exit(@, FALSE)]
    /\ hctx' = [hctx EXCEPT ![r] = detach(@)]
    /\ response' = [response EXCEPT ![r] = 200]
    /\ hpc' = [hpc EXCEPT ![r] = "returned"]
    /\ UNCHANGED <<pc, request, ctx, rspan, cspan, local, outcome, observations,
                   telemetry>>

\* the client span the instrumented requests.get starts under external_call
client_span(r) ==
    start_span("GET", get_span_context(handler_span(r, "external_call")), r, 3)

\* the worker thread's context while requests.get runs
client_context(r) ==
    attach(handler_context(r, "external_call"), get_span_context(client_span(r)))

\* external_call() up to the response of requests.get: span external_call,
\* the instrumented call starts its client span, injects the current span
\* context into the outbound headers and sends; service_b's middleware
\* receives the request in slot d
ExternalSend(r, d) ==
    /\ pc[r] = "await" /\ hpc[r] = "none"
    /\ HandlerOf(request[r]) = "external_call"
    /\ IsNextFree(d)
    /\ nspan' = [nspan EXCEPT ![r] = handler_span(r, "external_call")]
    /\ cspan' = [cspan EXCEPT ![r] = client_span(r)]
    /\ hctx' = [hctx EXCEPT ![r] = client_context(r)]
    /\ hpc' = [hpc EXCEPT ![r] = "waiting"]
    /\ LET rq == [service |-> "service_b", method |-> "GET", route |-> "/work",
                  traceparent |-> inject(get_current_span_context(client_context(r))),
                  caller |-> r] IN
       /\ request' = [request EXCEPT ![d] = rq]
       /\ rspan' = [rspan EXCEPT ![d] = request_span(d, rq)]
       /\ ctx' = [ctx EXCEPT ![d] = attach(@, get_span_context(request_span(d, rq)))]
    /\ pc' = [pc EXCEPT ![d] = "await"]
    /\ UNCHANGED <<local, response, outcome, observations, lastLog, telemetry>>

\* external_call() when service_b cannot be reached: requests.get raises,
\* the exception leaves both with blocks and the handler
ExternalFail(r) ==
    /\ pc[r] = "await" /\ hpc[r] = "none"
    /\ HandlerOf(request[r]) = "external_call"
    /\ nspan' = [nspan EXCEPT ![r] = with_exit(handler_span(r, "external_call"), TRUE)]
    /\ cspan' = [cspan EXCEPT ![r] = with_exit(client_span(r), TRUE)]
    /\ hctx' = [hctx EXCEPT ![r] = detach(detach(client_context(r)))]
    /\ hpc' = [hpc EXCEPT ![r] = "raised"]
    /\ UNCHANGED <<pc, request, ctx, rspan, local, response, outcome, observations,
                   lastLog, telemetry>>

\* the status code requests.get sees for the finished downstream invocation:
\* the response's, or the server's 500 when the application raised
downstream_status(d) ==
    IF outcome[d].kind = "response" THEN outcome[d].status ELSE 500

\* external_call() after requests.get: the client span ends, the status code
\* is set on the span, one log line, 200.  A downstream request that was
\* cancelled drops the connection and requests.get raises.
ExternalReceive(r, d) ==
    /\ hpc[r] = "waiting"
    /\ request[d].caller = r /\ pc[d] = "done"
    /\ IF outcome[d].kind = "cancelled"
       THEN /\ cspan' = [cspan EXCEPT ![r] = with_exit(@, TRUE)]
            /\ nspan' = [nspan EXCEPT ![r] = with_exit(@, TRUE)]
            /\ hpc' = [hpc EXCEPT ![r] = "raised"]
            /\ UNCHANGED <<lastLog, response>>
       ELSE /\ cspan' = [cspan EXCEPT ![r] =
                           with_exit(set_attribute(@, "http.status_code",
                                                   downstream_status(d)), FALSE)]
            /\ nspan' = [nspan EXCEPT ![r] =
                           with_exit(set_attribute(@, "external.status_code",
                                                   downstream_status(d)), FALSE)]
            /\ lastLog' = [lastLog EXCEPT ![r] = record_factory(detach(hctx[r]), r, "base_logger",
                                                  "INFO", "external")]
            /\ response' = [response EXCEPT ![r] = 200]
            /\ hpc' = [hpc EXCEPT ![r] = "returned"]
    /\ hctx' = [hctx EXCEPT ![r] = detach(detach(@))]
    /\ UNCHANGED <<pc, request, ctx, rspan, local, outcome, observations, telemetry>>

\* "if work_time > 0.15", with work_time = ms / 1000.0
too_slow_inclusive(ms) == ms >= SlowThresholdMs

\* "if work_time > 0.15", with work_time = ms / 1000.0
too_slow(ms) == ms > SlowThresholdMs

\* work() up to time.sleep(work_time): span work-span, work_time drawn; a
\* slow draw marks the span ERROR, logs a warning and returns 500 at once
Work(r, ms) ==
    /\ pc[r] = "await" /\ hpc[r] = "none"
    /\ HandlerOf(request[r]) = "work"
    /\ local' = [local EXCEPT ![r] = ms]
    /\ IF too_slow(ms)
       THEN /\ nspan' = [nspan EXCEPT ![r] =
                           with_exit(set_status_error(handler_span(r, "work-span")),
                                     FALSE)]
            /\ lastLog' = [lastLog EXCEPT ![r] = record_factory(handler_context(r, "work-span"), r,
                                                  "service_b_logger", "WARNING", "slow")]
            /\ hctx' = [hctx EXCEPT ![r] = detach(handler_context(r, "work-span"))]
            /\ response' = [response EXCEPT ![r] = 500]
            /\ hpc' = [hpc EXCEPT ![r] = "returned"]
       ELSE /\ nspan' = [nspan EXCEPT ![r] = handler_span(r, "work-span")]
            /\ hctx' = [hctx EXCEPT ![r] = handler_context(r, "work-span")]
            /\ hpc' = [hpc EXCEPT ![r] = "sleeping"]
            /\ UNCHANGED <<lastLog, response>>
    /\ UNCHANGED <<pc, request, ctx, rspan, cspan, outcome, observations, telemetry>>

\* work() after the sleep: one log line, 200
WorkFinish(r) ==
    /\ hpc[r] = "sleeping"
    /\ HandlerOf(request[r]) = "work"
    /\ lastLog' = [lastLog EXCEPT ![r] = record_factory(hctx[r], r, "service_b_logger",
                                                        "INFO", "work")]
    /\ nspan' = [nspan EXCEPT ![r] = with_exit(@, FALSE)]
    /\ hctx' = [hctx EXCEPT ![r] = detach(@)]
    /\ response' = [response EXCEPT ![r] = 200]
    /\ hpc' = [hpc EXCEPT ![r] = "returned"]
    /\ UNCHANGED <<pc, request, ctx, rspan, cspan, local, outcome, observations,
                   telemetry>>

\* a record created outside every request (the server's own logging, an
\* exporter's worker thread): the installed factory serves every logger of
\* the process, and no span is active there
EmitOutsideSpan ==
    /\ lastLog' = [lastLog EXCEPT ![0] = record_factory(<<>>, 0, "root", "INFO", "process")]
    /\ UNCHANGED <<pc, hpc, request, ctx, hctx, rspan, nspan, cspan, local,
                   response, outcome, observations, telemetry>>

\* a telemetry call of lines 101-112 raises after call_next returned a
\* response: nothing catches it, so it leaves the with block and the
\* middleware.  step is the call that raised.
CompleteFails(r, step) ==
    /\ pc[r] = "await" /\ hpc[r] = "returned"
    /\ observations' = [observations EXCEPT
                          ![r] = IF step = "record" THEN @
                                 ELSE Append(@, observation(request[r], response[r]))]
    /\ rspan' = [rspan EXCEPT ![r] =
                   with_exit(IF step = "log"
                             THEN set_attribute(
                                    set_attribute(@, "http.status_code", response[r]),
                                    "http.duration", "duration")
                             ELSE @, TRUE)]
    /\ ctx' = [ctx EXCEPT ![r] = detach(@)]
    /\ outcome' = [outcome EXCEPT ![r] = [kind |-> "raised", status |-> 0]]
    /\ pc' = [pc EXCEPT ![r] = "done"]
    /\ UNCHANGED <<hpc, request, hctx, nspan, cspan, local, response, lastLog,
                   telemetry>>

TelemetrySteps == {"record", "set_attribute", "log"}

\* ------------------------------------------------------------ telemetry.py
ServiceNames == {"base", "service_b"}
Endpoints == {"http://otel-collector:4318", "http://localhost:4318"}

\* init_telemetry(service_name, otel_endpoint), the n-th call in the process.
\* Every call builds a provider, an exporter and a batch processor (reader)
\* per signal, adds a LoggingHandler to the root logger and wraps the
\* current record factory.  The global tracer and meter provider are set by
\* the first call only (the API refuses to override them), and the two
\* instrumentors instrument once.  Nothing checks for an earlier call.
InitTelemetry(service_name, otel_endpoint) ==
    /\ Len(telemetry.calls) < MaxInitCalls
    /\ LET n == Len(telemetry.calls) + 1
           tp == IF telemetry.tracer_provider = 0 THEN n ELSE telemetry.tracer_provider
           mp == IF telemetry.meter_provider = 0 THEN n ELSE telemetry.meter_provider
       IN telemetry' =
            [calls |-> Append(telemetry.calls, <<service_name, otel_endpoint>>),
             tracer_provider |-> tp,
             meter_provider |-> mp,
             span_processors |-> telemetry.span_processors \cup {n},
             metric_readers |-> telemetry.metric_readers \cup {n},
             log_processors |-> telemetry.log_processors \cup {n},
             root_handlers |-> Append(telemetry.root_handlers, n),
             factory_chain |-> telemetry.factory_chain + 1,
             requests_instrumented |-> TRUE,
             logging_instrumented |-> TRUE,
             handles |-> [tracer |-> tp, meter |-> mp, request_duration |-> mp,
                          logger |-> <<service_name, "_logger">>, call |-> n],
             delivered |-> telemetry.delivered]
    /\ UNCHANGED pipelineVars

\* a log record is emitted: every LoggingHandler on the root logger hands
\* it to its own logger provider's batch processor
EmitToRoot ==
    /\ telemetry' = [telemetry EXCEPT !.delivered = telemetry.root_handlers]
    /\ UNCHANGED pipelineVars

Next ==
    \/ \E r \in Reqs, svc \in Services :
         \E route \in RoutesOf(svc), hdr \in InboundHeaders : Receive(r, svc, route, hdr)
    \/ \E r \in Reqs : Complete(r)
    \/ \E r \in Reqs : Propagate(r)
    \/ \E r \in Reqs : Cancel(r)
    \/ \E r \in Reqs : NotFound(r)
    \/ \E r \in Reqs : Root(r)
    \/ \E r \in Reqs : ComputeStart(r)
    \/ \E r \in Reqs : ComputeFinish(r)
    \/ \E r \in Reqs, d \in Reqs : ExternalSend(r, d)
    \/ \E r \in Reqs : ExternalFail(r)
    \/ \E r \in Reqs, d \in Reqs : ExternalReceive(r, d)
    \/ \E r \in Reqs, ms \in WorkTimes : Work(r, ms)
    \/ \E r \in Reqs : WorkFinish(r)

\* the request pipeline of the two services
Spec == Init /\ [][Next]_vars

NextLogging ==
    \/ Next
    \/ EmitOutsideSpan

\* the pipeline, with records created outside every request
SpecLogging == Init /\ [][NextLogging]_vars

NextFaulty ==
    \/ Next
    \/ \E r \in Reqs, step \in TelemetrySteps : CompleteFails(r, step)

\* the pipeline, with telemetry calls that may raise
SpecFaulty == Init /\ [][NextFaulty]_vars

NextTelemetry ==
    \/ \E n \in ServiceNames, e \in Endpoints : InitTelemetry(n, e)
    \/ EmitToRoot

\* a process that calls init_telemetry
SpecTelemetry == Init /\ [][NextTelemetry]_vars

\* ----------------------------------------------------------------- claims
Started(r) == pc[r] # "idle"
Exited(r) == pc[r] = "done"
HandlerLeft(r) == hpc[r] \in {"returned", "raised"}
HandlerMessages == {"root", "compute", "external", "slow", "work"}
\* the valid traceparent headers, by the identifiers they carry
HeaderOf == [c \in (AllIds \ {0}) \X (AllIds \ {0}) |-> Traceparent(c[1], c[2])]

\* C1: every invocation of telemetry_middleware that has exited, whether
\* call_next returned, raised or the request was cancelled, made exactly
\* one request_duration.record observation, whose http.status_code is the
\* response's status code, or a server-error code when no response came.
C1_OneObservationPerExit ==
    \A r \in Reqs :
      Exited(r) =>
        /\ Len(observations[r]) = 1
        /\ IF outcome[r].kind = "response"
           THEN observations[r][1]["http.status_code"] = outcome[r].status
           ELSE observations[r][1]["http.status_code"] >= 500

\* C2: once an invocation of telemetry_middleware has exited, its request
\* span is ended and is not the active span of its context; once a handler
\* has been left, by return or by an exception, every span it started is
\* ended and is not active in the handler's context.
C2_SpansEndedOnExit ==
    \A r \in Reqs :
      /\ Exited(r) =>
           /\ rspan[r].ended
           /\ \A i \in 1..Len(ctx[r]) : ctx[r][i].span_id # rspan[r].span_id
      /\ HandlerLeft(r) =>
           /\ nspan[r] # NoSpan => nspan[r].ended
           /\ cspan[r] # NoSpan => cspan[r].ended
           /\ \A i \in 1..Len(hctx[r]) :
                hctx[r][i].span_id \notin {nspan[r].span_id, cspan[r].span_id}

\* C2 witness: a handler raised; its spans and the request span are ended
C2_Witness ==
    \E r \in Reqs :
      /\ Exited(r) /\ outcome[r].kind = "raised"
      /\ rspan[r].ended /\ nspan[r].ended /\ cspan[r].ended

\* C3: a log record created while a span is active carries the hex
\* identifiers of that span; a record created while no span is active has
\* trace_id and span_id None, never a zero-valued identifier string.
C3_LogCorrelation ==
    \A e \in 0..MaxReqs :
      lastLog[e] # NoLog =>
        IF IsValid(lastLog[e].active)
        THEN /\ lastLog[e].trace_id = TraceHex[lastLog[e].active.trace_id]
             /\ lastLog[e].span_id = SpanHex[lastLog[e].active.span_id]
        ELSE /\ lastLog[e].trace_id = None
             /\ lastLog[e].span_id = None

\* C4: a request whose header carries a valid trace context with trace id T
\* gets a request span with trace id T whose parent is that context; a
\* request whose header is absent or malformed gets a root span, without
\* parent, whose trace id differs from that of every other root span.
C4_RequestSpanParentage ==
    \A r \in Reqs :
      Started(r) =>
        LET h == request[r].traceparent
            carried == { c \in DOMAIN HeaderOf : h = HeaderOf[c] }
        IN /\ \A c \in carried :
                /\ rspan[r].trace_id = c[1]
                /\ rspan[r].parent =
                     [trace_id |-> c[1], span_id |-> c[2], is_remote |-> TRUE]
           /\ carried = {} =>
                /\ rspan[r].parent = NoContext
                /\ rspan[r].trace_id # 0
                /\ \A q \in Reqs \ {r} :
                     Started(q) /\ rspan[q].parent = NoContext
                       => rspan[q].trace_id # rspan[r].trace_id

\* C4 witness: one request came with a valid header and one with a malformed one
C4_Witness ==
    \E r \in Reqs, q \in Reqs :
      /\ Started(r) /\ request[r].traceparent \in ValidHeaders
      /\ rspan[r].trace_id \in RemoteTraceIds
      /\ Started(q) /\ request[q].traceparent \in MalformedHeaders
      /\ rspan[q].parent = NoContext

\* C5: every log record created on behalf of a request carries the trace id
\* of that request's span, and never the trace id of another request in
\* flight with a different trace id.
C5_NoCrossContamination ==
    \A r \in Reqs :
      lastLog[r] # NoLog =>
        /\ lastLog[r].trace_id = TraceHex[rspan[r].trace_id]
        /\ \A q \in Reqs \ {r} :
             pc[q] = "await" /\ rspan[q].trace_id # rspan[r].trace_id
               => lastLog[r].trace_id # TraceHex[rspan[q].trace_id]

\* C5 witness: two requests with different inbound trace ids are in flight
\* together, a handler of each has logged, one of them after its sleep
C5_Witness ==
    \E r \in Reqs, q \in Reqs :
      /\ pc[r] = "await" /\ pc[q] = "await"
      /\ request[r].traceparent \in ValidHeaders
      /\ request[q].traceparent \in ValidHeaders
      /\ rspan[r].trace_id # rspan[q].trace_id
      /\ lastLog[r].msg = "compute"
      /\ lastLog[q].msg \in HandlerMessages

\* the case of C6: d is service_b's invocation for the call that base's
\* /external request r, which came without a header, made
ExternalChain(r, d) ==
    /\ Started(r) /\ Started(d)
    /\ HandlerOf(request[r]) = "external_call"
    /\ request[r].traceparent = Absent
    /\ request[d].caller = r

\* C6 as stated: base's request span is a root span with trace id X, the
\* outbound header carries X, and service_b's request span has trace id X,
\* another span id, and the root span's span id as its parent.
C6_DownstreamParentIsRoot ==
    \A r \in Reqs, d \in Reqs :
      ExternalChain(r, d) =>
        /\ rspan[r].parent = NoContext
        /\ request[d].traceparent # Absent
        /\ TraceFieldOf(request[d].traceparent) = TraceHex[rspan[r].trace_id]
        /\ rspan[d].trace_id = rspan[r].trace_id
        /\ rspan[d].span_id # rspan[r].span_id
        /\ rspan[d].parent.span_id = rspan[r].span_id

\* C6 amended: as stated, but the parent of service_b's request span is the
\* client span of the instrumented requests.get, which is a child of the
\* external_call span, which is a child of the root span.
C6_DownstreamParentIsClientSpan ==
    \A r \in Reqs, d \in Reqs :
      ExternalChain(r, d) =>
        /\ rspan[r].parent = NoContext
        /\ request[d].traceparent # Absent
        /\ TraceFieldOf(request[d].traceparent) = TraceHex[rspan[r].trace_id]
        /\ rspan[d].trace_id = rspan[r].trace_id
        /\ rspan[d].span_id # rspan[r].span_id
        /\ rspan[d].parent.span_id = cspan[r].span_id
        /\ rspan[d].parent.span_id # rspan[r].span_id
        /\ cspan[r].parent.span_id = nspan[r].span_id
        /\ nspan[r].parent.span_id = rspan[r].span_id

\* C6 witness: the downstream invocation of such a call has completed
C6_Witness ==
    \E r \in Reqs, d \in Reqs :
      /\ ExternalChain(r, d)
      /\ Exited(d) /\ outcome[d].kind = "response"
      /\ hpc[r] = "returned"

\* C7: a /work invocation that returned its response: with a work time
\* above the threshold the work span has status ERROR, the status code is
\* 500 and exactly one observation, with status 500, was recorded; with a
\* work time at most the threshold the status is not ERROR, the code is
\* 200 and exactly one observation, with status 200, was recorded; in both
\* cases the work span and the request span are ended.
C7_WorkOutcome ==
    \A r \in Reqs :
      HandlerOf(request[r]) = "work" /\ Exited(r) /\ outcome[r].kind = "response" =>
        LET code == IF local[r] > SlowThresholdMs THEN 500 ELSE 200 IN
        /\ (nspan[r].status = "ERROR") = (local[r] > SlowThresholdMs)
        /\ outcome[r].status = code
        /\ Len(observations[r]) = 1
        /\ observations[r][1]["http.status_code"] = code
        /\ nspan[r].ended /\ rspan[r].ended

\* C7 witness: one slow and one threshold-long /work invocation have returned
C7_Witness ==
    \E r \in Reqs, q \in Reqs :
      /\ HandlerOf(request[r]) = "work" /\ Exited(r) /\ outcome[r].kind = "response"
      /\ local[r] = SlowThresholdMs + 1
      /\ HandlerOf(request[q]) = "work" /\ Exited(q) /\ outcome[q].kind = "response"
      /\ local[q] = SlowThresholdMs

\* C8: whatever the number of init_telemetry calls, the handles are those
\* of the first call, there is at most one batch processor (reader) per
\* signal, at most one LoggingHandler on the root logger, at most one
\* installed record factory, and a log record is exported at most once.
C8_SingleInitialization ==
    /\ telemetry.calls # <<>> => telemetry.handles.call = 1
    /\ Cardinality(telemetry.span_processors) <= 1
    /\ Cardinality(telemetry.metric_readers) <= 1
    /\ Cardinality(telemetry.log_processors) <= 1
    /\ Len(telemetry.root_handlers) <= 1
    /\ telemetry.factory_chain <= 1
    /\ Len(telemetry.delivered) <= 1

\* C9: the caller of an invocation that was not cancelled sees the
\* handler's outcome: the handler's response with its status code, also
\* when a telemetry call fails, and an exception when the handler raised.
C9_CallerSeesHandlerOutcome ==
    \A r \in Reqs :
      Exited(r) /\ outcome[r].kind # "cancelled" =>
        /\ hpc[r] = "returned" =>
             outcome[r] = [kind |-> "response", status |-> response[r]]
        /\ hpc[r] = "raised" => outcome[r].kind = "raised"

\* C10: a record a handler logs carries the ids of the handler's span;
\* while the handler's with block is open its innermost span is current;
\* once the handler is left the request span is current again in its
\* context; the middleware's completion record carries the ids of the
\* request span; and after the invocation exits the middleware's context
\* is as it was before the request span was started.
C10_StrictNesting ==
    \A r \in Reqs :
      /\ lastLog[r].msg \in HandlerMessages =>
           /\ lastLog[r].span_id = SpanHex[nspan[r].span_id]
           /\ lastLog[r].trace_id = TraceHex[nspan[r].trace_id]
      /\ hpc[r] = "sleeping" =>
           get_current_span_context(hctx[r]).span_id = nspan[r].span_id
      /\ hpc[r] = "waiting" =>
           get_current_span_context(hctx[r]).span_id = cspan[r].span_id
      /\ HandlerLeft(r) /\ nspan[r] # NoSpan =>
           get_current_span_context(hctx[r]).span_id = rspan[r].span_id
      /\ lastLog[r].msg = "request" =>
           /\ lastLog[r].span_id = SpanHex[rspan[r].span_id]
           /\ lastLog[r].trace_id = TraceHex[rspan[r].trace_id]
      /\ Exited(r) => ctx[r] = <<>>

\* C10 witness: the completion record was logged after a handler span ended
C10_Witness ==
    \E r \in Reqs :
      /\ Exited(r) /\ lastLog[r].msg = "request"
      /\ nspan[r] # NoSpan /\ nspan[r].ended
      /\ nspan[r].span_id # rspan[r].span_id

=============================================================================
